---- MODULE Spec2Model ----
(***************************************************************************)
(* A model of cloudify_agent/api/pm/base.py: the Daemon base class.        *)
(*                                                                         *)
(* One daemon object is followed from its construction through create,     *)
(* register, start, stop, restart and delete.  The collaborators the       *)
(* class calls (command runner, liveness probe, broker client, crash-dump  *)
(* file, DaemonFactory.save) are modelled by their observable outcome,     *)
(* chosen nondeterministically where the class cannot control it.          *)
(*                                                                         *)
(* `log` is the trace of the collaborator calls made by the lifecycle call *)
(* in progress (or the last one finished); it is cleared when a new call   *)
(* begins.  `result` is what that call returned or raised.                 *)
(***************************************************************************)
EXTENDS Integers, Sequences, FiniteSets, TLC

VARIABLES
    params,          \* the keyword arguments handed to Daemon(**params)
    pc,              \* position of the single thread of control
    constructed,     \* __init__ ran to its end
    min_workers,     \* self.min_workers
    max_workers,     \* self.max_workers
    plugins,         \* self.plugins (a list)
    workdir_exists,  \* os.path.exists(self.workdir)
    celery,          \* self.celery has been created
    saved,           \* what DaemonFactory.save last stored
    in_a_row,        \* history: the successful register calls just made in a row
    dump,            \* content of <storage>/<name>.err, or NoDump
    surfaced,        \* history: a crash dump was raised and none written since
    op,              \* the lifecycle call in progress / last finished
    plugin,          \* register's argument
    force,           \* delete's argument
    phase,           \* which polling loop: "start" or "stop"
    interval,        \* the interval of the current polling loop
    timeout,         \* the timeout of the current polling loop
    now,             \* time.time(), measured from the instant end_time was set
    end_time,        \* the deadline of the current polling loop
    log,             \* collaborator calls of the current call, in order
    result           \* outcome of the current call

vars == <<params, pc, constructed, min_workers, max_workers, plugins,
          workdir_exists, celery, saved, in_a_row, dump, surfaced, op, plugin,
          force, phase, interval, timeout, now, end_time, log, result>>

(***************************************************************************)
(* Bounds of the model.                                                    *)
(***************************************************************************)
MaxWorkers == 6      \* largest min_workers / max_workers a caller passes
MaxPlugins == 2      \* longest plugins list a caller passes
MaxInterval == 2     \* largest polling interval
MaxTimeout == 4      \* largest polling timeout
MaxLag == 1          \* most a probe plus a sleep overshoot the interval

(***************************************************************************)
(* Program constants.                                                      *)
(***************************************************************************)
MIN_WORKERS == 0     \* defaults.MIN_WORKERS, as the class docstring states it
MAX_WORKERS == 5     \* defaults.MAX_WORKERS, as the class docstring states it

MANDATORY_PARAMS == <<"manager_ip">>

\* cloudify_agent.included_plugins.included_plugins: a fixed list of names.
included_plugins == <<"script", "diamond">>

\* self.name, the identity of the daemon
name == "agent"

PluginNames == {"script", "diamond", "p"}
ParamKeys == {"manager_ip", "min_workers", "max_workers", "plugins"}
DumpContents == {"boom", "bang"}
NoDump == "<no file>"
NotSaved == <<"<nothing stored>">>

Range(s) == {s[i] : i \in DOMAIN s}
Count(x, s) == Cardinality({i \in DOMAIN s : s[i] = x})
PluginLists == UNION {[1..n -> PluginNames] : n \in 0..MaxPlugins}

(***************************************************************************)
(* Parameter bags.  keys is the set of keyword arguments given; the field  *)
(* of an argument that is not given holds a fixed filler.                  *)
(***************************************************************************)
ParamBags ==
    {b \in [keys : SUBSET ParamKeys,
            min_workers : -1..MaxWorkers,
            max_workers : -1..MaxWorkers,
            plugins : PluginLists] :
        /\ "min_workers" \notin b.keys => b.min_workers = 0
        /\ "max_workers" \notin b.keys => b.max_workers = 0
        /\ "plugins" \notin b.keys => b.plugins = <<>>}

\* the bags the lifecycle specification constructs its daemon from
LifecycleBags == {b \in ParamBags : b.keys \in {{}, {"manager_ip"}}}

(***************************************************************************)
(* Outcomes: what a call returned or raised.                               *)
(***************************************************************************)
Outcome(k, t, n, m) == [kind |-> k, timeout |-> t, name |-> n, msg |-> m]
NoResult == Outcome("none", 0, "", "")
Returned == Outcome("returned", 0, "", "")
DaemonMissingMandatoryPropertyError(param) ==
    Outcome("DaemonMissingMandatoryPropertyError", 0, "", param)
DaemonPropertiesError(m) == Outcome("DaemonPropertiesError", 0, "", m)
DaemonStartupTimeout(t, n) == Outcome("DaemonStartupTimeout", t, n, "")
DaemonShutdownTimeout(t, n) == Outcome("DaemonShutdownTimeout", t, n, "")
DaemonException(error) == Outcome("DaemonException", 0, "", error)
DaemonStillRunningException(n) == Outcome("DaemonStillRunningException", 0, n, "")
CollaboratorError(what) == Outcome("CollaboratorError", 0, "", what)

(***************************************************************************)
(* Python's params.get(key) and its truth value: an absent key gives None, *)
(* and None, 0 and the empty list are false.                               *)
(***************************************************************************)
Has(b, key) == key \in b.keys
TruthyInt(b, key, v) == Has(b, key) /\ v # 0
TruthyList(b, key, l) == Has(b, key) /\ l # <<>>

\* str(v).isdigit() of an integer v
isdigit(v) == v >= 0

\* mutant: the check of the mandatory parameters is skipped
validate_mandatory_missing_none(b) == <<>>

\* the mandatory parameters that are missing, in the order of the check
validate_mandatory_missing(b) ==
    SelectSeq(MANDATORY_PARAMS, LAMBDA param : ~Has(b, param))

validate_mandatory(b) ==
    LET missing == validate_mandatory_missing(b)
    IN  IF missing # <<>>
        THEN DaemonMissingMandatoryPropertyError(Head(missing))
        ELSE NoResult

validate_optional(b) ==
    LET min_given == TruthyInt(b, "min_workers", b.min_workers)
        max_given == TruthyInt(b, "max_workers", b.max_workers)
    IN  IF min_given /\ ~isdigit(b.min_workers)
        THEN DaemonPropertiesError("min_workers is supposed to be a number")
        ELSE IF max_given /\ ~isdigit(b.max_workers)
        THEN DaemonPropertiesError("max_workers is supposed to be a number")
        ELSE IF min_given /\ max_given /\ b.min_workers > b.max_workers
        THEN DaemonPropertiesError("min_workers cannot be greater than max_workers")
        ELSE NoResult

\* "for included_plugin in included_plugins: if not in self.plugins: append"
RECURSIVE add_included_plugins(_, _)
add_included_plugins(list, included) ==
    IF included = <<>> THEN list
    ELSE add_included_plugins(
            IF Head(included) \in Range(list) THEN list
            ELSE Append(list, Head(included)),
            Tail(included))

default_plugins(b) ==
    add_included_plugins(
        IF TruthyList(b, "plugins", b.plugins) THEN b.plugins ELSE <<>>,
        included_plugins)

default_min_workers(b) ==
    IF TruthyInt(b, "min_workers", b.min_workers) THEN b.min_workers ELSE MIN_WORKERS

default_max_workers(b) ==
    IF TruthyInt(b, "max_workers", b.max_workers) THEN b.max_workers ELSE MAX_WORKERS

(***************************************************************************)
(* Daemon.__init__                                                         *)
(***************************************************************************)
CallFrame == <<op, plugin, force, phase, interval, timeout, now, end_time>>
Environment == <<saved, in_a_row, dump>>
Fields == <<constructed, min_workers, max_workers, plugins>>

Construct ==
    /\ pc = "new"
    /\ op' = "__init__"
    /\ LET e1 == validate_mandatory(params)
           e2 == validate_optional(params)
       IN  IF e1 # NoResult
           THEN /\ result' = e1
                /\ pc' = "failed"
                /\ log' = <<>>
                /\ UNCHANGED <<Fields, workdir_exists, celery>>
           ELSE IF e2 # NoResult
           THEN /\ result' = e2
                /\ pc' = "failed"
                /\ log' = <<>>
                /\ UNCHANGED <<Fields, workdir_exists, celery>>
           ELSE /\ min_workers' = default_min_workers(params)
                /\ max_workers' = default_max_workers(params)
                /\ plugins' = default_plugins(params)
                /\ workdir_exists' = TRUE
                /\ celery' = TRUE
                /\ constructed' = TRUE
                /\ log' = (IF workdir_exists THEN <<>> ELSE <<"makedirs">>)
                              \o <<"Celery">>
                /\ result' = Returned
                /\ pc' = "idle"
    /\ UNCHANGED <<params, Environment, surfaced, plugin, force, phase,
                   interval, timeout, now, end_time>>

\* the arguments and locals of start, stop, restart and delete, when no such
\* call is in progress
ClearLocals ==
    /\ force' = FALSE
    /\ phase' = "none"
    /\ interval' = 0
    /\ timeout' = 0
    /\ now' = 0
    /\ end_time' = 0

\* history: n successful register calls for the same plugin were just made in
\* a row (2 stands for two or more), and the last n of them made saves calls
\* of DaemonFactory.save between them
NotInARow == [n |-> 0, saves |-> 0]

(***************************************************************************)
(* DaemonFactory.save(self): the stored record is replaced as a whole.     *)
(***************************************************************************)
Snapshot(pl) == pl

(***************************************************************************)
(* Daemon.create                                                           *)
(***************************************************************************)
Create ==
    /\ pc = "idle"
    /\ op' = "create"
    /\ saved' = Snapshot(plugins)
    /\ in_a_row' = NotInARow
    /\ log' = <<"save">>
    /\ result' = Returned
    /\ plugin' = ""
    /\ ClearLocals
    /\ UNCHANGED <<params, pc, Fields, workdir_exists, celery, surfaced, dump>>

(***************************************************************************)
(* Daemon.register(plugin).  how is what the collaborators do:             *)
(* list_plugin_files raises, update_includes raises, or both return.       *)
(***************************************************************************)
RegisterOutcomes == {"list_plugin_files raises", "update_includes raises", "ok"}

register_plugins(list, p) ==
    IF p \notin Range(list) THEN Append(list, p) ELSE list

\* mutant: register also restarts the daemon to load the plugin
register_calls_restarting(how) ==
    IF how = "list_plugin_files raises" THEN <<"list_plugin_files">>
    ELSE IF how = "update_includes raises"
    THEN <<"list_plugin_files", "update_includes">>
    ELSE <<"list_plugin_files", "update_includes", "save", "stop_cmd",
           "probe absent", "start_cmd", "probe present">>

\* the collaborator calls of register, in order, up to and including the one
\* that raises
register_calls(how) ==
    IF how = "list_plugin_files raises" THEN <<"list_plugin_files">>
    ELSE IF how = "update_includes raises"
    THEN <<"list_plugin_files", "update_includes">>
    ELSE <<"list_plugin_files", "update_includes", "save">>

\* mutant: the plugin is appended before update_includes is called
register_appends_before_update(how) == how # "list_plugin_files raises"

\* whether register gets as far as its update of self.plugins: both
\* collaborator calls come first
register_appends(how) == how = "ok"

Register(p, how) ==
    /\ pc = "idle"
    /\ op' = "register"
    /\ plugin' = p
    /\ log' = register_calls(how)
    /\ plugins' = IF register_appends(how) THEN register_plugins(plugins, p)
                  ELSE plugins
    /\ saved' = IF "save" \in Range(log') THEN Snapshot(plugins') ELSE saved
    /\ result' = IF how = "list_plugin_files raises"
                 THEN CollaboratorError("list_plugin_files")
                 ELSE IF how = "update_includes raises"
                 THEN CollaboratorError("update_includes")
                 ELSE Returned
    /\ in_a_row' =
         IF result' # Returned THEN NotInARow
         ELSE IF in_a_row.n >= 1 /\ plugin = p
         THEN [n |-> 2, saves |-> Count("save", log) + Count("save", log')]
         ELSE [n |-> 1, saves |-> Count("save", log')]
    /\ ClearLocals
    /\ UNCHANGED <<params, pc, constructed, min_workers, max_workers,
                   workdir_exists, celery, surfaced, dump>>

(***************************************************************************)
(* The specification of construction and registration: every parameter bag *)
(* is tried.                                                               *)
(***************************************************************************)
InitCommon ==
    /\ pc = "new"
    /\ constructed = FALSE
    /\ min_workers = 0
    /\ max_workers = 0
    /\ plugins = <<>>
    /\ celery = FALSE
    /\ saved = NotSaved
    /\ in_a_row = NotInARow
    /\ surfaced = FALSE
    /\ op = "none"
    /\ plugin = ""
    /\ force = FALSE
    /\ phase = "none"
    /\ interval = 0
    /\ timeout = 0
    /\ now = 0
    /\ end_time = 0
    /\ log = <<>>
    /\ result = NoResult

InitParams ==
    /\ InitCommon
    /\ params \in ParamBags
    /\ workdir_exists \in BOOLEAN
    /\ dump = NoDump

NextParams ==
    \/ Construct
    \/ Create
    \/ \E p \in PluginNames, how \in RegisterOutcomes : Register(p, how)

SpecParams == InitParams /\ [][NextParams]_vars

(***************************************************************************)
(* The polling calls.  Each begins by clearing the trace of the previous   *)
(* call.                                                                   *)
(***************************************************************************)
Intervals == 1..MaxInterval
Timeouts == -1..MaxTimeout

Begin(o) ==
    /\ pc = "idle"
    /\ op' = o
    /\ plugin' = ""
    /\ log' = <<>>
    /\ result' = NoResult
    /\ now' = 0
    /\ end_time' = 0
    /\ in_a_row' = NotInARow

\* mutant: restart goes on to its start when its stop raised
raise_to_start(o, ph) ==
    IF o = "restart" /\ ph = "stop" THEN "restart_start" ELSE "idle"

\* where control goes when a step of call o raises in phase ph: no call has
\* a handler, so the error leaves the call, also from restart's stop
raise_to(o, ph) == "idle"

\* a call raises: the error reaches the caller, nothing further runs
Raise(e) ==
    /\ result' = e
    /\ pc' = raise_to(op, phase)

(***************************************************************************)
(* Daemon.start(interval, timeout, delete_amqp_queue)                      *)
(***************************************************************************)
BeginStart(i, t, q) ==
    /\ Begin("start")
    /\ phase' = "start"
    /\ interval' = i
    /\ timeout' = t
    /\ force' = FALSE
    /\ pc' = IF q THEN "cleanup" ELSE "start_cmd"
    /\ UNCHANGED <<params, Fields, workdir_exists, celery, surfaced,
                   saved, dump>>

(***************************************************************************)
(* Daemon._delete_amqp_queues.  how is the first broker call that raises   *)
(* (or "ok"); close_ok is whether client.close() returns.                  *)
(***************************************************************************)
CleanupOutcomes ==
    {"create_client raises", "channel raises", "queue_delete raises",
     "pidbox queue_delete raises", "ok"}

\* the broker calls made up to and including the one that raises
delete_amqp_queues_calls(how) ==
    IF how = "create_client raises" THEN <<"create_client">>
    ELSE IF how = "channel raises" THEN <<"create_client", "channel">>
    ELSE IF how = "queue_delete raises"
    THEN <<"create_client", "channel", "queue_delete">>
    ELSE <<"create_client", "channel", "queue_delete", "pidbox queue_delete">>

\* mutant: the connection is closed only when every broker call returned
delete_amqp_queues_finally_on_success(how, close_ok) ==
    IF how # "ok" THEN <<>>
    ELSE IF close_ok THEN <<"close">>
    ELSE <<"close", "warning">>

\* the finally block: close, and a warning when close raises
delete_amqp_queues_finally(how, close_ok) ==
    IF how = "create_client raises" THEN <<>>
    ELSE IF close_ok THEN <<"close">>
    ELSE <<"close", "warning">>

\* mutant: every failure of the cleanup is swallowed
delete_amqp_queues_never_raises(how, close_ok) == FALSE

\* whether _delete_amqp_queues raises to its caller
delete_amqp_queues_raises(how, close_ok) == how # "ok"

QueueCleanup(how, close_ok) ==
    /\ pc = "cleanup"
    /\ how = "create_client raises" => close_ok
    /\ log' = log \o delete_amqp_queues_calls(how)
                  \o delete_amqp_queues_finally(how, close_ok)
    /\ IF delete_amqp_queues_raises(how, close_ok)
       THEN Raise(CollaboratorError(how))
       ELSE /\ pc' = "start_cmd"
            /\ result' = result
    /\ UNCHANGED <<params, Fields, workdir_exists, celery, surfaced,
                   Environment,
                   CallFrame>>

\* what the runner does with command cmd: ok is whether it exits with zero
CommandEvents(cmd, ok) == IF ok THEN <<cmd>> ELSE <<cmd, "nonzero exit">>

\* mutant: the exit code of the command is ignored
run_raises_never(ok) == FALSE

\* self.runner.run(...) raises when the command exits non-zero, and nothing
\* around the call catches it
run_raises(ok) == ~ok

\* self.runner.run(self.start_command()); end_time = time.time() + timeout
RunStartCommand(ok) ==
    /\ pc = "start_cmd"
    /\ log' = log \o CommandEvents("start_cmd", ok)
    /\ IF ~run_raises(ok)
       THEN /\ pc' = "poll"
            /\ now' = 0
            /\ end_time' = now' + timeout
            /\ result' = result
       ELSE /\ Raise(CollaboratorError("start_cmd"))
            /\ UNCHANGED <<now, end_time>>
    /\ UNCHANGED <<params, Fields, workdir_exists, celery, surfaced,
                   Environment, op,
                   plugin, force, phase, interval, timeout>>

(***************************************************************************)
(* Daemon.stop(interval, timeout)                                          *)
(***************************************************************************)
BeginStop(i, t) ==
    /\ Begin("stop")
    /\ phase' = "stop"
    /\ interval' = i
    /\ timeout' = t
    /\ force' = FALSE
    /\ pc' = "stop_cmd"
    /\ UNCHANGED <<params, Fields, workdir_exists, celery, surfaced,
                   saved, dump>>

\* self.runner.run(self.stop_command()); end_time = time.time() + timeout
RunStopCommand(ok) ==
    /\ pc = "stop_cmd"
    /\ log' = log \o CommandEvents("stop_cmd", ok)
    /\ IF ~run_raises(ok)
       THEN /\ pc' = "poll"
            /\ now' = 0
            /\ end_time' = now' + timeout
            /\ result' = result
       ELSE /\ Raise(CollaboratorError("stop_cmd"))
            /\ UNCHANGED <<now, end_time>>
    /\ UNCHANGED <<params, Fields, workdir_exists, celery, surfaced,
                   Environment, op,
                   plugin, force, phase, interval, timeout>>

(***************************************************************************)
(* Daemon.restart(start_timeout, start_interval, stop_timeout,             *)
(* stop_interval): self.stop(...) then self.start(...).  The arguments of  *)
(* the start are drawn where restart first reads them, when the stop has   *)
(* returned; its delete_amqp_queue takes the default, a constant of        *)
(* defaults.py that may be either value.                                   *)
(***************************************************************************)
BeginRestart(stop_timeout, stop_interval) ==
    /\ Begin("restart")
    /\ phase' = "stop"
    /\ interval' = stop_interval
    /\ timeout' = stop_timeout
    /\ force' = FALSE
    /\ pc' = "stop_cmd"
    /\ UNCHANGED <<params, Fields, workdir_exists, celery, surfaced,
                   saved, dump>>

\* self.start(timeout=start_timeout, interval=start_interval)
RestartStart(start_timeout, start_interval, q) ==
    /\ pc = "restart_start"
    /\ phase' = "start"
    /\ interval' = start_interval
    /\ timeout' = start_timeout
    /\ pc' = IF q THEN "cleanup" ELSE "start_cmd"
    /\ UNCHANGED <<params, Fields, workdir_exists, celery, surfaced,
                   Environment, op,
                   plugin, force, now, end_time, log, result>>

(***************************************************************************)
(* The polling loops of start and stop.                                    *)
(***************************************************************************)
\* mutant: the loop gives up one time unit before the deadline
within_deadline_early(t, deadline) == t + 1 < deadline

\* mutant: the loop goes round once more at the deadline itself
within_deadline_late(t, deadline) == t <= deadline

\* "while time.time() < end_time"
within_deadline(t, deadline) == t < deadline

\* start: "if stats: return"
start_polled(stats) == stats

\* mutant: stop returns while the daemon is still seen
stop_polled_present(stats) == stats

\* stop: "if not stats: return"
stop_polled(stats) == ~stats

ProbeEvent(stats) == IF stats THEN "probe present" ELSE "probe absent"

\* the polling loop returns: the call returns, or restart and delete go on
PollReturn ==
    IF phase = "stop" /\ op = "restart"
    THEN /\ pc' = "restart_start"
         /\ result' = result
    ELSE IF phase = "stop" /\ op = "delete"
    THEN /\ pc' = "delete_finish"
         /\ result' = result
    ELSE /\ pc' = "idle"
         /\ result' = Returned

\* stats = utils.get_agent_stats(self.name, self.celery)
Probe(stats) ==
    /\ pc = "poll"
    /\ within_deadline(now, end_time)
    /\ log' = Append(log, ProbeEvent(stats))
    /\ IF (phase = "start" /\ start_polled(stats))
          \/ (phase = "stop" /\ stop_polled(stats))
       THEN PollReturn
       ELSE /\ pc' = "sleep"
            /\ result' = result
    /\ UNCHANGED <<phase, interval, timeout>>
    /\ UNCHANGED <<params, Fields, workdir_exists, celery, surfaced,
                   Environment, op,
                   plugin, force, now, end_time>>

\* time.sleep(interval): the clock has advanced by the interval and by
\* whatever the probe and the scheduler took on top of it
Sleep(lag) ==
    /\ pc = "sleep"
    /\ log' = Append(log, "sleep")
    /\ now' = now + interval + lag
    /\ pc' = "poll"
    /\ UNCHANGED <<params, Fields, workdir_exists, celery, surfaced,
                   Environment, op,
                   plugin, force, phase, interval, timeout, end_time, result>>

\* mutant: stop raises the error of start
timeout_error_of_start(ph, t, n) == DaemonStartupTimeout(t, n)

\* the error raised after the loop when no crash dump is found
timeout_error(ph, t, n) ==
    IF ph = "start" THEN DaemonStartupTimeout(t, n)
    ELSE DaemonShutdownTimeout(t, n)

\* _verify_no_celery_error: what it raises, given the crash-dump file
verify_no_celery_error(file) ==
    IF file # NoDump THEN DaemonException(file) ELSE NoResult

\* mutant: the file is read and left in place
verify_no_celery_error_file_kept(file) == file

\* the crash-dump file after _verify_no_celery_error
verify_no_celery_error_file(file) == NoDump

\* the loop ends without returning: self._verify_no_celery_error(), then
\* raise DaemonStartupTimeout / DaemonShutdownTimeout
Expire ==
    /\ pc = "poll"
    /\ ~within_deadline(now, end_time)
    /\ LET e == verify_no_celery_error(dump)
       IN  IF e # NoResult
           THEN /\ log' = log \o <<"dump exists", "dump read", "dump remove">>
                /\ dump' = verify_no_celery_error_file(dump)
                /\ surfaced' = TRUE
                /\ Raise(e)
           ELSE /\ log' = Append(log, "dump exists")
                /\ dump' = dump
                /\ surfaced' = surfaced
                /\ Raise(timeout_error(phase, timeout, name))
    /\ UNCHANGED <<params, Fields, workdir_exists, celery, saved, in_a_row,
                   CallFrame>>

(***************************************************************************)
(* delete(force).  The base class leaves delete to its subclasses; this is *)
(* the behaviour the specification gives every flavour: probe once; a      *)
(* running daemon is an error unless force, and then it is stopped by the  *)
(* stop protocol first (an error of stop reaches delete's caller); then    *)
(* the process manager's delete runs and the stored model is removed.      *)
(***************************************************************************)
BeginDelete(f) ==
    /\ Begin("delete")
    /\ force' = f
    /\ phase' = "none"
    /\ interval' = 0
    /\ timeout' = 0
    /\ pc' = "delete_probe"
    /\ UNCHANGED <<params, Fields, workdir_exists, celery, surfaced,
                   saved, dump>>

\* what delete does on the answer of its liveness check
delete_on_probe(stats, f) ==
    IF stats /\ ~f THEN "raise"
    ELSE IF stats THEN "stop"
    ELSE "delete"

DeleteProbe(stats) ==
    /\ pc = "delete_probe"
    /\ log' = Append(log, ProbeEvent(stats))
    /\ LET todo == delete_on_probe(stats, force)
       IN  IF todo = "raise" THEN Raise(DaemonStillRunningException(name))
           ELSE /\ pc' = IF todo = "stop" THEN "delete_stop" ELSE "delete_finish"
                /\ result' = result
    /\ UNCHANGED <<params, Fields, workdir_exists, celery, surfaced,
                   Environment,
                   CallFrame>>

\* self.stop(), with the intervals and timeouts a flavour may pass
DeleteStop(i, t) ==
    /\ pc = "delete_stop"
    /\ phase' = "stop"
    /\ interval' = i
    /\ timeout' = t
    /\ pc' = "stop_cmd"
    /\ UNCHANGED <<params, Fields, workdir_exists, celery, surfaced,
                   Environment, op,
                   plugin, force, now, end_time, log, result>>

DeleteFinish ==
    /\ pc = "delete_finish"
    /\ log' = log \o <<"pm delete", "storage delete">>
    /\ saved' = NotSaved
    /\ result' = Returned
    /\ pc' = "idle"
    /\ UNCHANGED <<params, Fields, workdir_exists, celery, surfaced,
                   in_a_row, dump,
                   CallFrame>>

(***************************************************************************)
(* The worker's exception handler writes a crash dump.                     *)
(***************************************************************************)
WorkerCrash(error) ==
    /\ pc \notin {"new", "failed"}
    /\ dump # error
    /\ dump' = error
    /\ surfaced' = FALSE
    /\ UNCHANGED <<params, pc, Fields, workdir_exists, celery, saved,
                   in_a_row, CallFrame, log, result>>

(***************************************************************************)
(* The lifecycle specification.                                            *)
(***************************************************************************)
Init ==
    /\ InitCommon
    /\ params \in LifecycleBags
    /\ workdir_exists = FALSE
    /\ dump = NoDump

Next ==
    \/ Construct
    \/ Create
    \/ \E p \in PluginNames, how \in RegisterOutcomes : Register(p, how)
    \/ \E i \in Intervals, t \in Timeouts, q \in BOOLEAN : BeginStart(i, t, q)
    \/ \E how \in CleanupOutcomes, close_ok \in BOOLEAN : QueueCleanup(how, close_ok)
    \/ \E ok \in BOOLEAN : RunStartCommand(ok)
    \/ \E i \in Intervals, t \in Timeouts : BeginStop(i, t)
    \/ \E ok \in BOOLEAN : RunStopCommand(ok)
    \/ \E i \in Intervals, t \in Timeouts : BeginRestart(t, i)
    \/ \E i \in Intervals, t \in Timeouts, q \in BOOLEAN : RestartStart(t, i, q)
    \/ \E stats \in BOOLEAN : Probe(stats)
    \/ \E lag \in 0..MaxLag : Sleep(lag)
    \/ Expire
    \/ \E f \in BOOLEAN : BeginDelete(f)
    \/ \E stats \in BOOLEAN : DeleteProbe(stats)
    \/ \E i \in Intervals, t \in Timeouts : DeleteStop(i, t)
    \/ DeleteFinish
    \/ \E error \in DumpContents : WorkerCrash(error)

Spec == Init /\ [][Next]_vars

(***************************************************************************)
(* The same, with the thread that runs a polling loop never stopping for   *)
(* good inside it: the probe answers and the sleep returns.                *)
(***************************************************************************)
PollStep ==
    \/ \E stats \in BOOLEAN : Probe(stats)
    \/ \E lag \in 0..MaxLag : Sleep(lag)
    \/ Expire

SpecFair == Spec /\ WF_vars(PollStep)

(***************************************************************************)
(* Reading the trace of a call.                                            *)
(***************************************************************************)
Finished == pc = "idle" /\ result # NoResult

LastIndex(ev, s) ==
    LET at == {i \in DOMAIN s : s[i] = ev}
    IN  IF at = {} THEN 0 ELSE CHOOSE i \in at : \A j \in at : j <= i

FirstIndex(ev, s) ==
    LET at == {i \in DOMAIN s : s[i] = ev}
    IN  IF at = {} THEN 0 ELSE CHOOSE i \in at : \A j \in at : i <= j

\* the command of the current polling loop has run and returned
Polling(cmd) ==
    /\ LastIndex(cmd, log) > 0
    /\ result # CollaboratorError(cmd)

\* the probes and sleeps of the current polling loop, in order
PollLog(cmd) ==
    SelectSeq(SubSeq(log, LastIndex(cmd, log) + 1, Len(log)),
              LAMBDA e : e \in {"probe present", "probe absent", "sleep"})

Probes(l) == Count("probe present", l) + Count("probe absent", l)
Sleeps(l) == Count("sleep", l)

\* l is k-1 rounds of <<waiting, "sleep">> and then the answer done
PolledUntil(l, waiting, done) ==
    /\ Len(l) % 2 = 1
    /\ l[Len(l)] = done
    /\ \A i \in 1..(Len(l) - 1) : l[i] = IF i % 2 = 1 THEN waiting ELSE "sleep"

\* the polling loop of phase ph is at its head with the deadline passed, and
\* the thread takes its step
Expires(ph) ==
    /\ phase = ph
    /\ pc = "poll"
    /\ now >= end_time
    /\ pc' # "poll"

TimedOut(kind) == Finished /\ result.kind \in {kind, "DaemonException"}

(***************************************************************************)
(* C1.  When start's polling window expires without a probe having         *)
(* reported stats: if the crash-dump file exists, start raises             *)
(* DaemonException carrying exactly the content of the file, and the file  *)
(* is gone afterwards; if it does not exist, start raises                  *)
(* DaemonStartupTimeout carrying the timeout and the daemon's name.        *)
(***************************************************************************)
C1_StartExpiry ==
    [][Expires("start") =>
          /\ pc' = "idle"
          /\ dump' = NoDump
          /\ "probe present" \notin Range(PollLog("start_cmd"))
          /\ IF dump \in DumpContents
             THEN result' = DaemonException(dump)
             ELSE result' = DaemonStartupTimeout(timeout, name)]_vars

\* C1: always absent, dump "boom", timeout 2: DaemonException("boom"), file gone
C1_Witness ==
    /\ op = "start"
    /\ timeout = 2
    /\ Finished
    /\ result = DaemonException("boom")
    /\ dump = NoDump
    /\ Probes(log) >= 1
    /\ "probe present" \notin Range(log)

(***************************************************************************)
(* C2.  start(interval, timeout), interval > 0: if the probe reports       *)
(* absent on polls 1..k-1 and present on poll k, and (k-1)*interval <      *)
(* timeout, start returns with exactly k probes and k-1 sleeps.            *)
(*                                                                         *)
(* The answers of the probe are the environment's, so the statement is     *)
(* read on the finished call: a start that returned made k-1 rounds of     *)
(* <<absent, sleep>> and then one present probe; and a start that gave up  *)
(* after j absent probes did not do so while j*interval < timeout, for     *)
(* then a present answer on poll j+1 was owed its probe.                   *)
(***************************************************************************)
C2_Shape ==
    (op = "start" /\ Finished /\ Polling("start_cmd")) =>
        LET l == PollLog("start_cmd")
        IN  /\ result = Returned =>
                /\ PolledUntil(l, "probe absent", "probe present")
                /\ Probes(l) = Sleeps(l) + 1
            /\ result # Returned => TimedOut("DaemonStartupTimeout")

\* C2 as stated: with (k-1)*interval < timeout, poll k is made, whatever
\* the clock did
C2_Original ==
    /\ C2_Shape
    /\ (op = "start" /\ TimedOut("DaemonStartupTimeout")) =>
          ~(Probes(PollLog("start_cmd")) * interval < timeout)

\* the clock moved by the sleeps alone, each of exactly the interval
ExactClock(cmd) == now = Sleeps(PollLog(cmd)) * interval

\* C2 amended: the same, for a clock that advances by exactly interval per
\* sleep and by nothing else
C2_Amended ==
    /\ C2_Shape
    /\ (op = "start" /\ TimedOut("DaemonStartupTimeout") /\ ExactClock("start_cmd")) =>
          ~(Probes(PollLog("start_cmd")) * interval < timeout)

\* C2: 3 absent polls, then present, interval 1: 4 probes, 3 sleeps
C2_Witness ==
    /\ op = "start"
    /\ result = Returned
    /\ interval = 1
    /\ ExactClock("start_cmd")
    /\ Probes(PollLog("start_cmd")) = 4
    /\ Sleeps(PollLog("start_cmd")) = 3
    /\ 3 * interval < timeout

(***************************************************************************)
(* C3.  start and stop with timeout <= 0 issue exactly one probe and never *)
(* sleep; start(timeout=0) with the probe absent issues one probe and      *)
(* raises DaemonStartupTimeout.                                            *)
(***************************************************************************)
C3_OneProbe ==
    \A cmd \in {"start_cmd", "stop_cmd"} :
        (op \in {"start", "stop"} /\ Finished /\ Polling(cmd) /\ timeout <= 0) =>
            /\ Probes(PollLog(cmd)) = 1
            /\ Sleeps(PollLog(cmd)) = 0
            /\ (op = "start" /\ PollLog(cmd) = <<"probe absent">>) =>
                   TimedOut("DaemonStartupTimeout")

(***************************************************************************)
(* C4.  stop runs the stop command and then polls; it returns at the first *)
(* probe that reports no stats; when the polling window expires with stats *)
(* present on every probe it raises DaemonException, consuming the crash   *)
(* dump, if the file exists, and DaemonShutdownTimeout carrying the        *)
(* timeout and the name otherwise.                                         *)
(***************************************************************************)
C4_Returns ==
    (phase = "stop" /\ Polling("stop_cmd")) =>
        LET l == PollLog("stop_cmd")
            returned == \/ op = "stop" /\ pc = "idle" /\ result = Returned
                        \/ op = "restart" /\ pc = "restart_start"
                        \/ op = "delete" /\ pc = "delete_finish"
                        \/ op = "delete" /\ pc = "idle" /\ result = Returned
        IN  /\ op = "stop" => log[1] = "stop_cmd"
            /\ returned <=> "probe absent" \in Range(l)
            /\ returned => PolledUntil(l, "probe present", "probe absent")

C4_Stop ==
    [][/\ C4_Returns'
       /\ Expires("stop") =>
             /\ pc' = "idle"
             /\ dump' = NoDump
             /\ "probe absent" \notin Range(PollLog("stop_cmd"))
             /\ IF dump \in DumpContents
                THEN result' = DaemonException(dump)
                ELSE result' = DaemonShutdownTimeout(timeout, name)]_vars

\* C4: stop saw the daemon on both of its probes and raised the stop timeout
C4_Witness ==
    /\ op = "stop"
    /\ Finished
    /\ result = DaemonShutdownTimeout(2, name)
    /\ PollLog("stop_cmd") = <<"probe present", "sleep", "probe present", "sleep">>

(***************************************************************************)
(* C5.  restart is stop, then start.  Whenever the stop raises (its        *)
(* command fails, DaemonShutdownTimeout, DaemonException) the start is     *)
(* never attempted: no queue cleanup, no start command, no further probe;  *)
(* and the error of the stop is what restart raises.                       *)
(***************************************************************************)
StartEvents == {"create_client", "start_cmd"}

C5_Restart ==
    op = "restart" =>
        LET started == {i \in DOMAIN log : log[i] \in StartEvents}
            first == CHOOSE i \in started : \A j \in started : i <= j
        IN  /\ log # <<>> => log[1] = "stop_cmd"
            /\ started # {} =>
                  /\ first > 1
                  /\ log[first - 1] = "probe absent"
                  /\ phase = "start"
            /\ (Finished /\ phase = "stop") =>
                  /\ started = {}
                  /\ \/ result = CollaboratorError("stop_cmd") /\ Probes(log) = 0
                     \/ result = DaemonShutdownTimeout(timeout, name)
                     \/ result.kind = "DaemonException"
                  /\ log[Len(log)] \in {"nonzero exit", "dump exists", "dump remove"}
            /\ (Finished /\ result.kind = "DaemonShutdownTimeout") => started = {}

\* C5: restart's stop timed out after a probe; nothing of start ran
C5_Witness ==
    /\ op = "restart"
    /\ Finished
    /\ result.kind = "DaemonShutdownTimeout"
    /\ Probes(log) >= 1
    /\ Range(log) \cap StartEvents = {}

CleanupErrors == {CollaboratorError(how) : how \in CleanupOutcomes \ {"ok"}}

C7_WitnessClose ==
    /\ op = "start"
    /\ result = Returned
    /\ "warning" \in Range(log)

(***************************************************************************)
(* C8.  For any starting plugin list and any plugin p, register(p) called  *)
(* twice in a row, both calls returning, leaves p in self.plugins exactly  *)
(* once; DaemonFactory.save is called exactly twice, once per call, after  *)
(* the update of self.plugins and storing the list as it then is.          *)
(***************************************************************************)
C8_RegisterTwice ==
    in_a_row.n = 2 =>
        /\ op = "register"
        /\ Count(plugin, plugins) = 1
        /\ in_a_row.saves = 2
        /\ log[Len(log)] = "save"
        /\ saved = Snapshot(plugins)

(***************************************************************************)
(* C9.  For every parameter bag without manager_ip, construction fails     *)
(* with DaemonMissingMandatoryPropertyError naming manager_ip; no daemon   *)
(* is produced and nothing else has happened: no defaulting, no working    *)
(* directory created, no broker client created.                            *)
(***************************************************************************)
C9_MissingManagerIp ==
    (~Has(params, "manager_ip") /\ pc # "new") =>
        /\ pc = "failed"
        /\ result = DaemonMissingMandatoryPropertyError("manager_ip")
        /\ ~constructed
        /\ min_workers = 0 /\ max_workers = 0 /\ plugins = <<>>
        /\ log = <<>>
        /\ ~celery
        /\ saved = NotSaved

\* C9: no manager_ip, and worker bounds that validate_optional would refuse too
C9_Witness ==
    /\ ~Has(params, "manager_ip")
    /\ Has(params, "min_workers") /\ Has(params, "max_workers")
    /\ params.min_workers > params.max_workers /\ params.max_workers > 0
    /\ pc = "failed"
    /\ result.kind = "DaemonMissingMandatoryPropertyError"
    /\ ~workdir_exists

(***************************************************************************)
(* C10.  For all non-negative integers min_workers and max_workers, both   *)
(* given, 0 included: validation fails with DaemonPropertiesError when     *)
(* min_workers > max_workers and succeeds when min_workers <= max_workers. *)
(***************************************************************************)
C10_WorkerOrder ==
    (/\ pc # "new"
     /\ Has(params, "manager_ip")
     /\ Has(params, "min_workers") /\ params.min_workers >= 0
     /\ Has(params, "max_workers") /\ params.max_workers >= 0) =>
        IF params.min_workers > params.max_workers
        THEN pc = "failed" /\ result.kind = "DaemonPropertiesError" /\ ~constructed
        ELSE constructed /\ result.kind # "DaemonPropertiesError"

(***************************************************************************)
(* C11.  After defaulting, self.plugins holds every included plugin        *)
(* exactly once, for every list the caller passes: lists with duplicates,  *)
(* and lists that already hold included plugins, once or more than once.   *)
(***************************************************************************)
C11_IncludedOnce ==
    (constructed /\ op = "__init__") =>
        \A included \in Range(included_plugins) : Count(included, plugins) = 1

(***************************************************************************)
(* C12.  Every daemon that construction accepts has min_workers <=         *)
(* max_workers in its stored fields, also when the caller gave only one of *)
(* the two and the other is the default; and create, start, stop, restart  *)
(* and register leave that so.                                             *)
(***************************************************************************)
C12_StoredWorkerOrder == constructed => min_workers <= max_workers

(***************************************************************************)
(* C13.  start runs its start command only if create has succeeded before  *)
(* (the daemon is stored); start on a daemon that was never created does   *)
(* not launch the process.                                                 *)
(***************************************************************************)
C13_StartNeedsCreate ==
    (op \in {"start", "restart"} /\ "start_cmd" \in Range(log)) => saved # NotSaved

(***************************************************************************)
(* C14.  When the start command or the stop command exits non-zero the     *)
(* call ends there with that error: the command is not run again, no probe *)
(* and no sleep follows it, and the crash-dump file is neither read nor    *)
(* removed.                                                                *)
(***************************************************************************)
C14_CommandFails ==
    [][("nonzero exit" \in Range(log') /\ log' # log) =>
          LET cmd == IF phase = "start" THEN "start_cmd" ELSE "stop_cmd"
          IN  /\ log' = log \o <<cmd, "nonzero exit">>
              /\ pc' = "idle"
              /\ result' = CollaboratorError(cmd)
              /\ Count(cmd, log') = 1
              /\ PollLog(cmd)' = <<>>
              /\ Range(log') \cap {"dump exists", "dump read", "dump remove"} = {}
              /\ dump' = dump]_vars

\* C14: start's command failed while a crash dump lay there; the dump stays
C14_Witness ==
    /\ op = "start"
    /\ result = CollaboratorError("start_cmd")
    /\ log = <<"start_cmd", "nonzero exit">>
    /\ dump = "boom"

(***************************************************************************)
(* C15.  In the queue cleanup, once the connection is there it is closed   *)
(* on every path: when every broker call returned, and when opening the    *)
(* channel or either queue deletion raised.  The close comes once, after   *)
(* the last broker call.  When the close itself raises, a warning is the   *)
(* only trace of it: the cleanup still ends as its broker calls ended, by  *)
(* returning or with the error of the call that raised.                    *)
(***************************************************************************)
BrokerCalls == {"channel", "queue_delete", "pidbox queue_delete"}

C15_CloseAlways ==
    "channel" \in Range(log) =>
        LET closed == FirstIndex("close", log)
            made == {i \in DOMAIN log : log[i] \in BrokerCalls}
        IN  /\ Count("close", log) = 1
            /\ \A i \in made : i < closed
            /\ log[closed - 1] \in BrokerCalls
            /\ Count("warning", log) <= 1
            /\ "warning" \in Range(log) => log[closed + 1] = "warning"
            /\ IF "start_cmd" \in Range(log) \/ pc = "start_cmd"
               THEN /\ log[closed - 1] = "pidbox queue_delete"
                    /\ Len(SelectSeq(log, LAMBDA e : e \in BrokerCalls)) = 3
               ELSE /\ Finished
                    /\ result \in CleanupErrors
                    /\ result.msg \in
                          {"channel raises", "queue_delete raises",
                           "pidbox queue_delete raises"}
                    /\ result.msg =
                          (IF log[closed - 1] = "channel" THEN "channel raises"
                           ELSE IF log[closed - 1] = "queue_delete"
                           THEN "queue_delete raises"
                           ELSE "pidbox queue_delete raises")

\* C15: the first deletion raised and then the close raised as well: the
\* caller gets the error of the deletion
C15_Witness ==
    /\ log = <<"create_client", "channel", "queue_delete", "close", "warning">>
    /\ result = CollaboratorError("queue_delete raises")

(***************************************************************************)
(* C16.  The crash-dump file is looked at (existence, read, remove) only   *)
(* by a start or a stop whose polling window has expired, and once per     *)
(* call at most.  A call that returns has not looked at it, and no step of *)
(* a call other than that look changes the file: a dump that was there     *)
(* before a call that returns is there, the same, after it.                *)
(***************************************************************************)
DumpEvents == {"dump exists", "dump read", "dump remove"}

C16_DumpOnlyOnExpiry ==
    [][LET looks == log' # log /\ Range(log') \cap DumpEvents # {}
       IN  /\ looks =>
                 /\ Expires("start") \/ Expires("stop")
                 /\ Range(log) \cap DumpEvents = {}
                 /\ \A e \in DumpEvents : Count(e, log') <= 1
                 /\ pc' = "idle"
                 /\ result'.kind \in {"DaemonStartupTimeout",
                                      "DaemonShutdownTimeout", "DaemonException"}
           /\ dump' # dump =>
                 \/ looks /\ dump \in DumpContents /\ dump' = NoDump
                 \/ /\ dump' \in DumpContents
                    /\ <<pc, log, result>>' = <<pc, log, result>>
           /\ result' = Returned => Range(log') \cap DumpEvents = {}]_vars

\* C16: a start that returned after two probes, with a crash dump lying there
C16_Witness ==
    /\ op = "start"
    /\ result = Returned
    /\ PollLog("start_cmd") = <<"probe absent", "sleep", "probe present">>
    /\ dump = "bang"

(***************************************************************************)
(* C17.  A crash dump is raised once at most.  After a start or a stop has *)
(* raised DaemonException from the crash-dump file, and until the worker   *)
(* writes a new one, the file is absent and a start or stop that times out *)
(* raises its plain timeout error.                                         *)
(***************************************************************************)
C17_SurfacedOnce ==
    [][/\ surfaced' => dump' = NoDump
       /\ (surfaced /\ (Expires("start") \/ Expires("stop"))) =>
             /\ result'.kind # "DaemonException"
             /\ result' = IF phase = "start"
                          THEN DaemonStartupTimeout(timeout, name)
                          ELSE DaemonShutdownTimeout(timeout, name)
             /\ surfaced'
       /\ (result'.kind = "DaemonException" /\ result' # result) => surfaced'
       /\ (surfaced /\ ~surfaced') => dump' \in DumpContents]_vars

\* C17: after a crash dump was raised, a stop timed out and raised the plain
\* DaemonShutdownTimeout
C17_Witness ==
    /\ surfaced
    /\ op = "stop"
    /\ Finished
    /\ result = DaemonShutdownTimeout(2, name)
    /\ "dump exists" \in Range(log)

(***************************************************************************)
(* C18.  When register(plugin) fails in listing the plugin's files or in   *)
(* update_includes, the error reaches the caller and the daemon is as it   *)
(* was: self.plugins is the list it was before the call, and nothing is    *)
(* saved by that call.                                                     *)
(***************************************************************************)
C18_RegisterFails ==
    [][(op' = "register" /\ result' # Returned) =>
          /\ result' \in {CollaboratorError("list_plugin_files"),
                          CollaboratorError("update_includes")}
          /\ log'[Len(log')] = result'.msg
          /\ "save" \notin Range(log')
          /\ plugins' = plugins
          /\ saved' = saved
          /\ pc' = "idle"]_vars

\* C18: update_includes raised for a plugin not yet registered, on a daemon
\* that had been stored: the list and the stored copy are without it
C18_Witness ==
    /\ op = "register"
    /\ result = CollaboratorError("update_includes")
    /\ plugin = "p"
    /\ saved = plugins
    /\ "p" \notin Range(plugins)

(***************************************************************************)
(* C19.  register(plugin) never starts, stops or restarts the daemon:      *)
(* it runs no start or stop command, makes no liveness probe, no queue     *)
(* cleanup, and does not touch the crash-dump file.  What it does is list  *)
(* the plugin's files, update_includes, append the plugin when it is not   *)
(* in self.plugins, and save once.                                         *)
(***************************************************************************)
C19_RegisterOnly ==
    [][(op' = "register"
            /\ <<op, plugin, log, result>>' # <<op, plugin, log, result>>) =>
          /\ pc = "idle" /\ pc' = "idle"
          /\ Range(log') \subseteq
                {"list_plugin_files", "update_includes", "save"}
          /\ Count("save", log') <= 1
          /\ Count("update_includes", log') <= 1
          /\ dump' = dump
          /\ surfaced' = surfaced
          /\ <<constructed, min_workers, max_workers, workdir_exists, celery>>'
                = <<constructed, min_workers, max_workers, workdir_exists, celery>>
          /\ plugins' \in {plugins, Append(plugins, plugin')}
          /\ saved' \in {saved, plugins'}
          /\ result' = Returned =>
                /\ log' = <<"list_plugin_files", "update_includes", "save">>
                /\ saved' = plugins'
                /\ plugin' \in Range(plugins')]_vars

\* C19: register ran right after a start that had launched the daemon, with
\* a crash dump lying there
C19_Witness ==
    /\ op = "register"
    /\ result = Returned
    /\ plugins = <<"script", "diamond", "p">>
    /\ saved = plugins
    /\ dump = "boom"

(***************************************************************************)
(* C20.  With interval > 0, a finite timeout and a clock that advances by  *)
(* at least interval per sleep, every start and every stop ends (returns,  *)
(* or raises a timeout or DaemonException) after at most                   *)
(* ceil(timeout / interval) liveness probes, whatever the probes answer.   *)
(***************************************************************************)
\* ceil(t / i) for i > 0
CeilDiv(t, i) == -((-t) \div i)

InLoop == pc \in {"poll", "sleep"}

LoopCommand == IF phase = "start" THEN "start_cmd" ELSE "stop_cmd"

\* C20 as stated: the probes of a polling loop number at most
\* ceil(timeout / interval)
C20_Original ==
    (InLoop \/ (Finished /\ Polling(LoopCommand))) =>
        Probes(PollLog(LoopCommand)) <= CeilDiv(timeout, interval)

\* the bound of the amended claim: ceil(timeout / interval), and zero when
\* that is negative
ProbeBound == IF timeout <= 0 THEN 0 ELSE CeilDiv(timeout, interval)

\* C20 amended: the probes of a polling loop number at most
\* max(0, ceil(timeout / interval)), and the loop is always left
C20_Amended ==
    /\ [](Polling(LoopCommand) => Probes(PollLog(LoopCommand)) <= ProbeBound)
    /\ [](InLoop => Sleeps(PollLog(LoopCommand)) <= ProbeBound)
    /\ InLoop ~> ~InLoop

\* C20: a stop with timeout 3 and interval 2 timed out after ceil(3/2) = 2
\* probes
C20_Witness ==
    /\ op = "stop"
    /\ timeout = 3
    /\ interval = 2
    /\ Finished
    /\ result = DaemonShutdownTimeout(3, name)
    /\ Probes(PollLog("stop_cmd")) = 2

====
